---- MODULE Spec2Model ----
(***************************************************************************)
(* Frame-processing pipeline of the YOLOv8 webcam demo                     *)
(* (src/florence2-webgpu/vite.config.js): the lifecycle controller         *)
(* (startDetection / stopDetection / model radio handler), the frame       *)
(* scheduler (detectionLoop / detectFrame) and the suppressor (applyNMS /  *)
(* calculateIoU).                                                          *)
(*                                                                         *)
(* JavaScript runs each task to completion: one action of this module is   *)
(* one task of the event loop together with the microtasks it triggers     *)
(* (the continuation after an await whose promise settles, and .finally    *)
(* callbacks).  The suspension points are exactly the awaits on external   *)
(* promises: AutoModel.from_pretrained, AutoProcessor.from_pretrained,     *)
(* getUserMedia, the loadedmetadata event, processor(image),               *)
(* model(inputs) and requestAnimationFrame.                                *)
(*                                                                         *)
(* An animation-frame handle is named by the invocation whose              *)
(* detectionLoop armed it: a loop has at most one request pending and      *)
(* every arming overwrites detectionLoopId, so the name determines the     *)
(* handle.  A MediaStream is named by the invocation that acquired it.     *)
(***************************************************************************)
EXTENDS Integers, Sequences, FiniteSets, TLC

\* ---------------------------------------------------------------- bounds
\* Number of startDetection() invocations explored (start clicks + switches)
MaxStarts == 2
\* Number of successful cycles explored (logical values of performance.now())
MaxTime == 1

\* ------------------------------------------------------- program constants
\* MODEL_ID's initial value and the other value a model radio can carry.
DefaultModel == "webnn/yolov8n"
OtherModel == "webnn/yolov8m"
Models == {DefaultModel, OtherModel}

\* null for detectionLoopId, stream and videoElement.srcObject
null == 0

\* startDetection() invocations, in the order they are made.  Invocation i
\* owns the closure variables model/processor/ctx/detectionLoop, the stream
\* it acquires, and the animation-frame request its detectionLoop arms.
Inv == 1..MaxStarts

VARIABLES
  MODEL_ID,          \* let MODEL_ID
  isProcessing,      \* let isProcessing
  lastFrameTime,     \* let lastFrameTime (logical time of the last successful cycle end)
  detectionLoopId,   \* let detectionLoopId: invocation whose request was armed last, or null
  stream,            \* let stream: the invocation whose MediaStream is stored, or null
  live,              \* MediaStreams acquired whose tracks have not been stopped
  videoSrc,          \* videoElement.srcObject
  onloadedmetadata,  \* videoElement.onloadedmetadata: invocation that installed the handler
  metaPending,       \* the loadedmetadata event of videoSrc has not fired yet
  pc,                \* position of each startDetection() invocation and of its loop
  model,             \* model id each invocation passed to AutoModel.from_pretrained
  overlay,           \* overlayElement: model whose detections are drawn, or "" when empty
  statusText,        \* statusElement.textContent (message kind)
  startDisabled,     \* startButton.disabled
  stopDisabled,      \* stopButton.disabled
  halted,            \* history: stopDetection() returned, no startDetection() since
  discard,           \* history: cycles that were in flight at a stopDetection()
  old,               \* history: invocations made before the latest model switch
  detections,        \* applyNMS: its argument detections
  iouThreshold,      \* applyNMS: its argument iouThreshold, as <<numerator, denominator>>
  filteredDetections,\* applyNMS: the list it returned
  nmsPc,             \* applyNMS: "idle" (not called), "call" (arguments chosen), "return"
  argA,              \* calculateIoU: its argument boxA
  argB,              \* calculateIoU: its argument boxB
  iou,               \* calculateIoU: the quotient it returned, as <<intersection, union>>
  iouPc,             \* calculateIoU: "idle", "call", "return"
  predictions,       \* processDetections: outputs.tolist()[0], the 4 + C channels
  confidenceThreshold, \* let confidenceThreshold, in score levels
  scale,             \* processDetections: <<scaleX, scaleY>>
  decoded,           \* processDetections: the detections array before applyNMS
  decPc              \* processDetections: "idle", "call"/"return" (decoding alone),
                     \* "process"/"rendered" (the whole function)

vars == <<MODEL_ID, isProcessing, lastFrameTime, detectionLoopId, stream, live,
          videoSrc, onloadedmetadata, metaPending, pc, model,
          overlay, statusText, startDisabled, stopDisabled,
          halted, discard, old,
          detections, iouThreshold, filteredDetections, nmsPc,
          argA, argB, iou, iouPc,
          predictions, confidenceThreshold, scale, decoded, decPc>>

nmsVars == <<detections, iouThreshold, filteredDetections, nmsPc>>
iouVars == <<argA, argB, iou, iouPc>>
decVars == <<predictions, confidenceThreshold, scale, decoded, decPc>>
schedVars == <<MODEL_ID, isProcessing, lastFrameTime, detectionLoopId, stream,
               live, videoSrc, onloadedmetadata, metaPending, pc, model,
               overlay, statusText, startDisabled, stopDisabled, halted,
               discard, old>>

\* Positions of an invocation.
\*   unused          not invoked yet
\*   loadModel       awaiting AutoModel.from_pretrained        (line 77)
\*   loadProcessor   awaiting AutoProcessor.from_pretrained    (line 85)
\*   getUserMedia    awaiting navigator.mediaDevices.getUserMedia (line 105)
\*   loadedmetadata  awaiting videoElement.onloadedmetadata    (line 115)
\*   failed          startDetection() ended in its catch block (line 323)
\*   raf             requestAnimationFrame(detectionLoop) pending (line 317)
\*   processor       detectFrame awaiting processor(image)     (line 276)
\*   model           detectFrame awaiting model(inputs)        (line 277)
\*   cancelled       its pending request was cancelled         (line 331)
Starting == {"loadModel", "loadProcessor", "getUserMedia", "loadedmetadata"}
Cycle == {"processor", "model"}

Used == {i \in Inv : pc[i] # "unused"}
\* Invocations with a requestAnimationFrame(detectionLoop) request pending.
Armed == {i \in Inv : pc[i] = "raf"}
\* Outstanding cycles: detectFrame calls past the isProcessing check that
\* have not reached their finally block.
InFlight == {i \in Inv : pc[i] \in Cycle}

SchedInit ==
  /\ MODEL_ID = DefaultModel
  /\ isProcessing = FALSE
  /\ lastFrameTime = 0
  /\ detectionLoopId = null
  /\ stream = null
  /\ live = {}
  /\ videoSrc = null
  /\ onloadedmetadata = null
  /\ metaPending = FALSE
  /\ pc = [i \in Inv |-> "unused"]
  /\ model = [i \in Inv |-> ""]
  /\ overlay = ""
  /\ statusText = ""
  /\ startDisabled = FALSE
  /\ stopDisabled \in BOOLEAN
  /\ halted = FALSE
  /\ discard = {}
  /\ old = {}

NMSIdle ==
  /\ detections = <<>>
  /\ iouThreshold = <<1, 2>>
  /\ filteredDetections = <<>>
  /\ nmsPc = "idle"

IoUIdle ==
  /\ argA = <<0, 0, 0, 0>>
  /\ argB = <<0, 0, 0, 0>>
  /\ iou = <<0, 0>>
  /\ iouPc = "idle"

\* confidenceThreshold starts at 0.25 (line 27), one score level.
DecodeIdle ==
  /\ predictions = <<>>
  /\ confidenceThreshold = 1
  /\ scale = <<1, 1>>
  /\ decoded = <<>>
  /\ decPc = "idle"

Init ==
  /\ SchedInit
  /\ NMSIdle
  /\ IoUIdle
  /\ DecodeIdle

\* ------------------------------------------------------------ stopDetection
\* cancelAnimationFrame(detectionLoopId): removes the request if it is still
\* pending; a handle whose callback already ran is ignored.
cancelAnimationFrame(p) ==
  IF detectionLoopId # null /\ p[detectionLoopId] = "raf"
    THEN [p EXCEPT ![detectionLoopId] = "cancelled"]
    ELSE p

\* stopDetection(), except for pc and statusText, which the callers complete
\* (the model radio handler goes on to write both in the same task).  The
\* FPS text it resets is not modelled.
stopDetection ==
  /\ detectionLoopId' = null
  /\ live' = IF stream # null THEN live \ {stream} ELSE live
  /\ stream' = null
  /\ videoSrc' = null
  /\ metaPending' = FALSE
  /\ isProcessing' = FALSE
  /\ discard' = InFlight

\* ------------------------------------------------- detectionLoop/detectFrame
\* detectFrame without its isProcessing check: every call starts a cycle.
detectionLoopUnguarded(i, p) ==
  /\ pc' = [p EXCEPT ![i] = "processor"]
  /\ detectionLoopId' = detectionLoopId
  /\ isProcessing' = TRUE

\* detectionLoop() of invocation i up to its first suspension: detectFrame
\* either returns at once because isProcessing is set (its promise is already
\* fulfilled, so the .finally callback arms the next animation frame in the
\* same task), or sets isProcessing and suspends at await processor(image).
detectionLoop(i, p) ==
  IF isProcessing
    THEN /\ pc' = [p EXCEPT ![i] = "raf"]
         /\ detectionLoopId' = i
         /\ isProcessing' = isProcessing
    ELSE /\ pc' = [p EXCEPT ![i] = "processor"]
         /\ detectionLoopId' = detectionLoopId
         /\ isProcessing' = TRUE

\* The next unused invocation.
NextInv == CHOOSE i \in Inv : pc[i] = "unused" /\ \A j \in Inv : j < i => pc[j] # "unused"

\* Synchronous part of startDetection() -> initializeModel(): writes the status
\* and calls AutoModel.from_pretrained(MODEL_ID) with the MODEL_ID of that moment.
startDetection(i, p, m) ==
  /\ pc' = [p EXCEPT ![i] = "loadModel"]
  /\ model' = [model EXCEPT ![i] = m]
  /\ statusText' = "Loading model..."
  /\ halted' = FALSE

\* ----------------------------------------------------------- event handlers
\* startButton click handler.
StartClick ==
  /\ ~startDisabled
  /\ Used # Inv
  /\ startDisabled' = TRUE
  /\ stopDisabled' = FALSE
  /\ startDetection(NextInv, pc, MODEL_ID)
  /\ UNCHANGED <<MODEL_ID, isProcessing, lastFrameTime, detectionLoopId, stream,
                 live, videoSrc, onloadedmetadata, metaPending,
                 overlay, discard, old>>
  /\ UNCHANGED nmsVars
  /\ UNCHANGED <<iouVars, decVars>>

\* stopButton click handler.
StopClick ==
  /\ ~stopDisabled
  /\ stopDetection
  /\ pc' = cancelAnimationFrame(pc)
  /\ statusText' = "Detection stopped."
  /\ startDisabled' = FALSE
  /\ stopDisabled' = TRUE
  /\ halted' = TRUE
  /\ UNCHANGED <<MODEL_ID, lastFrameTime, onloadedmetadata, model,
                 overlay, old>>
  /\ UNCHANGED nmsVars
  /\ UNCHANGED <<iouVars, decVars>>

\* Model radio change handler: stopDetection(); MODEL_ID = radio.value;
\* startDetection() up to its first await.  A change event is delivered when
\* another radio than the checked one is selected.
ModelChange(m) ==
  /\ m # MODEL_ID
  /\ Used # Inv
  /\ stopDetection
  /\ MODEL_ID' = m
  /\ startDetection(NextInv, cancelAnimationFrame(pc), m)
  /\ old' = Used
  /\ UNCHANGED <<lastFrameTime, onloadedmetadata, overlay,
                 startDisabled, stopDisabled>>
  /\ UNCHANGED nmsVars
  /\ UNCHANGED <<iouVars, decVars>>

\* ------------------------------------------------- startDetection, resumed
\* AutoModel.from_pretrained resolves (line 77); initializeModel goes on to
\* call AutoProcessor.from_pretrained (line 85).
ModelLoaded(i) ==
  /\ pc[i] = "loadModel"
  /\ pc' = [pc EXCEPT ![i] = "loadProcessor"]
  /\ UNCHANGED <<MODEL_ID, isProcessing, lastFrameTime, detectionLoopId, stream,
                 live, videoSrc, onloadedmetadata, metaPending, model, overlay,
                 statusText, startDisabled, stopDisabled, halted,
                 discard, old>>
  /\ UNCHANGED nmsVars
  /\ UNCHANGED <<iouVars, decVars>>

\* A rejected load that ends the invocation without a word on the status.
ModelLoadFailsSilently(i) ==
  /\ pc[i] \in {"loadModel", "loadProcessor"}
  /\ pc' = [pc EXCEPT ![i] = "failed"]
  /\ UNCHANGED <<MODEL_ID, isProcessing, lastFrameTime, detectionLoopId, stream,
                 live, videoSrc, onloadedmetadata, metaPending, model, overlay,
                 statusText, startDisabled, stopDisabled, halted, discard, old>>
  /\ UNCHANGED nmsVars
  /\ UNCHANGED <<iouVars, decVars>>

\* Either from_pretrained call rejects: initializeModel's catch writes the
\* status and rethrows (lines 96-100), startDetection's catch overwrites it
\* (lines 323-326).  detectionLoop is not reached.
ModelLoadFails(i) ==
  /\ pc[i] \in {"loadModel", "loadProcessor"}
  /\ pc' = [pc EXCEPT ![i] = "failed"]
  /\ statusText' = "Failed to start"
  /\ UNCHANGED <<MODEL_ID, isProcessing, lastFrameTime, detectionLoopId, stream,
                 live, videoSrc, onloadedmetadata, metaPending, model, overlay,
                 startDisabled, stopDisabled, halted, discard, old>>
  /\ UNCHANGED nmsVars
  /\ UNCHANGED <<iouVars, decVars>>

\* AutoProcessor.from_pretrained resolves (line 85): initializeModel returns,
\* startDetection calls setupCamera(), which calls getUserMedia.
ProcessorLoaded(i) ==
  /\ pc[i] = "loadProcessor"
  /\ pc' = [pc EXCEPT ![i] = "getUserMedia"]
  /\ statusText' = "Model loaded! Starting camera..."
  /\ UNCHANGED <<MODEL_ID, isProcessing, lastFrameTime, detectionLoopId, stream,
                 live, videoSrc, onloadedmetadata, metaPending, model, overlay,
                 startDisabled, stopDisabled, halted, discard, old>>
  /\ UNCHANGED nmsVars
  /\ UNCHANGED <<iouVars, decVars>>

\* getUserMedia resolves with a new MediaStream (lines 112-127): it becomes
\* videoElement.srcObject and this invocation's handler replaces
\* videoElement.onloadedmetadata.
GetUserMediaResolves(i) ==
  /\ pc[i] = "getUserMedia"
  /\ pc' = [pc EXCEPT ![i] = "loadedmetadata"]
  /\ live' = live \cup {i}
  /\ videoSrc' = i
  /\ onloadedmetadata' = i
  /\ metaPending' = TRUE
  /\ UNCHANGED <<MODEL_ID, isProcessing, lastFrameTime, detectionLoopId, stream,
                 model, overlay, statusText, startDisabled,
                 stopDisabled, halted, discard, old>>
  /\ UNCHANGED nmsVars
  /\ UNCHANGED <<iouVars, decVars>>

\* A startDetection whose detectionLoop() call is not skipped when
\* setupCamera rejects.
GetUserMediaRejectsThenLoops(i) ==
  /\ pc[i] = "getUserMedia"
  /\ statusText' = "Failed to start"
  /\ detectionLoop(i, pc)
  /\ UNCHANGED <<MODEL_ID, lastFrameTime, stream, live, videoSrc,
                 onloadedmetadata, metaPending, model, overlay, startDisabled,
                 stopDisabled, halted, discard, old>>
  /\ UNCHANGED nmsVars
  /\ UNCHANGED <<iouVars, decVars>>

\* getUserMedia rejects: setupCamera's catch writes the status and rejects
\* (lines 128-131), startDetection's catch overwrites it (lines 323-326).
GetUserMediaRejects(i) ==
  /\ pc[i] = "getUserMedia"
  /\ pc' = [pc EXCEPT ![i] = "failed"]
  /\ statusText' = "Failed to start"
  /\ UNCHANGED <<MODEL_ID, isProcessing, lastFrameTime, detectionLoopId, stream,
                 live, videoSrc, onloadedmetadata, metaPending, model, overlay,
                 startDisabled, stopDisabled, halted, discard, old>>
  /\ UNCHANGED nmsVars
  /\ UNCHANGED <<iouVars, decVars>>

\* The video element fires loadedmetadata for its current srcObject.  The
\* installed handler resolves the setupCamera promise of the invocation that
\* installed it with that invocation's stream (lines 115-126); startDetection
\* resumes: stream = <that stream>, then detectionLoop() (lines 309-322).
LoadedMetadata ==
  /\ videoSrc # null
  /\ metaPending
  /\ metaPending' = FALSE
  /\ IF pc[onloadedmetadata] = "loadedmetadata"
       THEN /\ stream' = onloadedmetadata
            /\ detectionLoop(onloadedmetadata, pc)
       ELSE UNCHANGED <<stream, pc, detectionLoopId, isProcessing>>
  /\ UNCHANGED <<MODEL_ID, lastFrameTime, live, videoSrc, onloadedmetadata,
                 model, overlay, statusText, startDisabled,
                 stopDisabled, halted, discard, old>>
  /\ UNCHANGED nmsVars
  /\ UNCHANGED <<iouVars, decVars>>

\* ------------------------------------------------------------ frame cycle
\* The browser runs the pending animation-frame callback of invocation i:
\* detectionLoop() (lines 315-319).
AnimationFrame(i) ==
  /\ pc[i] = "raf"
  /\ detectionLoop(i, pc)
  /\ UNCHANGED <<MODEL_ID, lastFrameTime, stream, live, videoSrc,
                 onloadedmetadata, metaPending, model, overlay,
                 statusText, startDisabled, stopDisabled, halted,
                 discard, old>>
  /\ UNCHANGED nmsVars
  /\ UNCHANGED <<iouVars, decVars>>

\* processor(image) resolves (line 276); detectFrame calls model(inputs).
ProcessorResolves(i) ==
  /\ pc[i] = "processor"
  /\ pc' = [pc EXCEPT ![i] = "model"]
  /\ UNCHANGED <<MODEL_ID, isProcessing, lastFrameTime, detectionLoopId, stream,
                 live, videoSrc, onloadedmetadata, metaPending, model, overlay,
                 statusText, startDisabled,
                 stopDisabled, halted, discard, old>>
  /\ UNCHANGED nmsVars
  /\ UNCHANGED <<iouVars, decVars>>

\* A detectFrame that clears the flag on the success path only.
finallyBlockMissing ==
  isProcessing' = (isProcessing /\ statusText' = "Error")

\* The finally block of detectFrame (lines 300-302).
finallyBlock ==
  isProcessing' = FALSE

\* The end of a cycle of invocation i: detectFrame's finally block, then the
\* .finally callback of detectionLoop arms the next animation frame and
\* stores its handle (lines 316-318).
cycleEnd(i) ==
  /\ finallyBlock
  /\ pc' = [pc EXCEPT ![i] = "raf"]
  /\ detectionLoopId' = i
  /\ discard' = discard \ {i}

\* A detectionLoop that arms the next frame with .then instead of .finally
\* around a detectFrame that lets the error escape.
InferenceFailsAndHalts(i) ==
  /\ pc[i] \in Cycle
  /\ statusText' = "Error"
  /\ finallyBlock
  /\ pc' = [pc EXCEPT ![i] = "cancelled"]
  /\ discard' = discard \ {i}
  /\ UNCHANGED <<MODEL_ID, lastFrameTime, detectionLoopId, stream, live,
                 videoSrc, onloadedmetadata, metaPending, model,
                 overlay, startDisabled, stopDisabled, halted, old>>
  /\ UNCHANGED nmsVars
  /\ UNCHANGED <<iouVars, decVars>>

\* processor(image) or model(inputs) rejects: catch block (lines 297-299).
InferenceFails(i) ==
  /\ pc[i] \in Cycle
  /\ statusText' = "Error"
  /\ cycleEnd(i)
  /\ UNCHANGED <<MODEL_ID, lastFrameTime, stream, live, videoSrc,
                 onloadedmetadata, metaPending, model, overlay, startDisabled,
                 stopDisabled, halted, old>>
  /\ UNCHANGED nmsVars
  /\ UNCHANGED <<iouVars, decVars>>

\* Class counts C of an output tensor [4 + C][N], and the number of entries
\* of model.config.id2label copied into classLabels (lines 280-283; 80 for
\* the real models, 2 here).
ClassCounts == 1..2
LabelCount == 2

\* model(inputs) resolves with a tensor of c class channels and
\* processDetections succeeds (lines 277-296): the overlay is redrawn from
\* this invocation's model, lastFrameTime becomes the cycle's end time and
\* the status reports the detections (the FPS text, written alongside it, is
\* not modelled).  processDetections takes the class count from the tensor
\* itself (line 149) and never compares it with classLabels, so c decides
\* nothing.
ModelResolvesWith(i, c) ==
  /\ pc[i] = "model"
  /\ c \in ClassCounts
  /\ lastFrameTime < MaxTime
  /\ overlay' = model[i]
  /\ lastFrameTime' = lastFrameTime + 1
  /\ statusText' = "Detected"
  /\ cycleEnd(i)
  /\ UNCHANGED <<MODEL_ID, stream, live, videoSrc, onloadedmetadata,
                 metaPending, model, startDisabled, stopDisabled,
                 halted, old>>
  /\ UNCHANGED nmsVars
  /\ UNCHANGED <<iouVars, decVars>>

ModelResolves(i) ==
  \E c \in ClassCounts : ModelResolvesWith(i, c)

\* model(inputs) resolves but processDetections throws after it has emptied
\* the overlay (lines 143-148, e.g. outputs without a usable tolist()):
\* catch block (lines 297-299).
DecodeFails(i) ==
  /\ pc[i] = "model"
  /\ overlay' = ""
  /\ statusText' = "Error"
  /\ cycleEnd(i)
  /\ UNCHANGED <<MODEL_ID, lastFrameTime, stream, live, videoSrc,
                 onloadedmetadata, metaPending, model,
                 startDisabled, stopDisabled, halted, old>>
  /\ UNCHANGED nmsVars
  /\ UNCHANGED <<iouVars, decVars>>

\* ----------------------------------------------------------- specification
Next ==
  \/ StartClick
  \/ StopClick
  \/ \E m \in Models : ModelChange(m)
  \/ \E i \in Inv : ModelLoaded(i)
  \/ \E i \in Inv : ModelLoadFails(i)
  \/ \E i \in Inv : ProcessorLoaded(i)
  \/ \E i \in Inv : GetUserMediaResolves(i)
  \/ \E i \in Inv : GetUserMediaRejects(i)
  \/ LoadedMetadata
  \/ \E i \in Inv : AnimationFrame(i)
  \/ \E i \in Inv : ProcessorResolves(i)
  \/ \E i \in Inv : InferenceFails(i)
  \/ \E i \in Inv : ModelResolves(i)
  \/ \E i \in Inv : DecodeFails(i)

Spec == Init /\ [][Next]_vars

TypeOK ==
  /\ MODEL_ID \in Models
  /\ isProcessing \in BOOLEAN
  /\ lastFrameTime \in 0..MaxTime
  /\ detectionLoopId \in Inv \cup {null}
  /\ stream \in Inv \cup {null}
  /\ live \subseteq Inv
  /\ videoSrc \in Inv \cup {null}
  /\ onloadedmetadata \in Inv \cup {null}
  /\ metaPending \in BOOLEAN
  /\ pc \in [Inv -> {"unused", "failed", "raf", "cancelled"} \cup Starting \cup Cycle]
  /\ model \in [Inv -> Models \cup {""}]
  /\ overlay \in Models \cup {""}
  /\ startDisabled \in BOOLEAN
  /\ stopDisabled \in BOOLEAN

\* ------------------------------------------------------------- suppressor
\* Largest number of detections in an applyNMS argument.
MaxDets == 2

\* Boxes [x, y, width, height] on a small integer grid, scores, class ids
\* and IoU thresholds (0.25, 0.5 and 1.0) the arguments are drawn from.
Pos == 0..1
Side == 1..2
Scores == 1..2
Classes == 0..1
Thresholds == {<<1, 4>>, <<1, 2>>, <<1, 1>>}

Boxes == {<<x, y, w, h>> : x \in Pos, y \in Pos, w \in Side, h \in Side}
Detections == [bbox : Boxes, score : Scores, class : Classes]
DetectionLists == UNION {[1..n -> Detections] : n \in 0..MaxDets}

Max(a, b) == IF a >= b THEN a ELSE b
Min(a, b) == IF a <= b THEN a ELSE b

\* calculateIoU(boxA, boxB), as the exact pair <<intersection, union>> of the
\* quotient it returns.
calculateIoU(boxA, boxB) ==
  LET xA == boxA[1]  yA == boxA[2]  wA == boxA[3]  hA == boxA[4]
      xB == boxB[1]  yB == boxB[2]  wB == boxB[3]  hB == boxB[4]
      x1 == Max(xA, xB)
      y1 == Max(yA, yB)
      x2 == Min(xA + wA, xB + wB)
      y2 == Min(yA + wA, yB + hB)
      intersection == Max(0, x2 - x1) * Max(0, y2 - y1)
      areaA == wA * hA
      areaB == wB * hB
      union == areaA + areaB - intersection
  IN <<intersection, union>>

\* iou > iouThreshold for the double iou = q[1] / q[2] and a threshold
\* t[1] / t[2] in (0, 1]: 0/0 is NaN and compares false, a positive number
\* over 0 is Infinity and compares true.
GreaterThan(q, t) ==
  IF q[2] > 0 THEN q[1] * t[2] > t[1] * q[2]
  ELSE IF q[2] = 0 THEN q[1] > 0
  ELSE q[1] * t[2] < t[1] * q[2]

\* detections.sort((a, b) => b.score - a.score): Array.prototype.sort is
\* stable, so equal scores keep their order.
RECURSIVE InsertByScore(_, _)
InsertByScore(sorted, d) ==
  IF sorted = <<>> THEN <<d>>
  ELSE IF Head(sorted).score >= d.score
    THEN <<Head(sorted)>> \o InsertByScore(Tail(sorted), d)
    ELSE <<d>> \o sorted

RECURSIVE SortByScore(_)
SortByScore(ds) ==
  IF ds = <<>> THEN <<>>
  ELSE InsertByScore(SortByScore(SubSeq(ds, 1, Len(ds) - 1)), ds[Len(ds)])

\* An applyNMS whose inner loop also pushes every detectionB it does not
\* suppress, so that a survivor is pushed again when its own turn comes.
RECURSIVE NMSLoopPushesSurvivors(_, _, _, _, _)
NMSLoopPushesSurvivors(sorted, t, i, used, kept) ==
  IF i > Len(sorted) THEN kept
  ELSE IF i \in used THEN NMSLoopPushesSurvivors(sorted, t, i + 1, used, kept)
  ELSE LET hit == {j \in (i + 1)..Len(sorted) :
                     /\ j \notin used
                     /\ GreaterThan(calculateIoU(sorted[i].bbox, sorted[j].bbox), t)}
           later == SelectSeq(SubSeq(sorted, i + 1, Len(sorted)),
                              LAMBDA d : \E j \in (i + 1)..Len(sorted) :
                                           j \notin used \cup hit /\ sorted[j] = d)
       IN NMSLoopPushesSurvivors(sorted, t, i + 1, used \cup hit,
                                 Append(kept, sorted[i]) \o later)

\* The loops of applyNMS over the sorted list, from index i on, with the set
\* of suppressed indices `used` and the list kept so far.
RECURSIVE NMSLoop(_, _, _, _, _)
NMSLoop(sorted, t, i, used, kept) ==
  IF i > Len(sorted) THEN kept
  ELSE IF i \in used THEN NMSLoop(sorted, t, i + 1, used, kept)
  ELSE NMSLoop(sorted, t, i + 1,
               used \cup {j \in (i + 1)..Len(sorted) :
                            /\ j \notin used
                            /\ GreaterThan(calculateIoU(sorted[i].bbox, sorted[j].bbox), t)},
               Append(kept, sorted[i]))

applyNMS(ds, t) ==
  NMSLoop(SortByScore(ds), t, 1, {}, <<>>)

\* The suppressor called on arbitrary arguments.
NMSInit ==
  /\ SchedInit
  /\ detections \in DetectionLists
  /\ iouThreshold \in Thresholds
  /\ filteredDetections = <<>>
  /\ nmsPc = "call"
  /\ IoUIdle
  /\ DecodeIdle

ApplyNMS ==
  /\ nmsPc = "call"
  /\ filteredDetections' = applyNMS(detections, iouThreshold)
  /\ nmsPc' = "return"
  /\ UNCHANGED <<detections, iouThreshold>>
  /\ UNCHANGED schedVars
  /\ UNCHANGED <<iouVars, decVars>>

SpecNMS == NMSInit /\ [][ApplyNMS]_vars

\* The IoU of the specification: intersection over union of the two
\* axis-aligned boxes, 0 when the union is empty.
IoUExceeds(boxA, boxB, t) ==
  LET ix == Max(0, Min(boxA[1] + boxA[3], boxB[1] + boxB[3]) - Max(boxA[1], boxB[1]))
      iy == Max(0, Min(boxA[2] + boxA[4], boxB[2] + boxB[4]) - Max(boxA[2], boxB[2]))
      inter == ix * iy
      uni == boxA[3] * boxA[4] + boxB[3] * boxB[4] - inter
  IN uni > 0 /\ inter * t[2] > t[1] * uni

\* ------------------------------------------------------------------- IoU
\* calculateIoU called on arbitrary boxes [x, y, w, h] with corners in
\* 0..MaxPos and sizes in 0..MaxSide (size 0: a degenerate box).
MaxPos == 1
MaxSide == 2

IoUBoxes == {<<x, y, w, h>> : x \in 0..MaxPos, y \in 0..MaxPos,
                              w \in 0..MaxSide, h \in 0..MaxSide}

IoUInit ==
  /\ SchedInit
  /\ NMSIdle
  /\ DecodeIdle
  /\ argA \in IoUBoxes
  /\ argB \in IoUBoxes
  /\ iou = <<0, 0>>
  /\ iouPc = "call"

CalculateIoU ==
  /\ iouPc = "call"
  /\ iou' = calculateIoU(argA, argB)
  /\ iouPc' = "return"
  /\ UNCHANGED <<argA, argB>>
  /\ UNCHANGED <<schedVars, nmsVars, decVars>>

SpecIoU == IoUInit /\ [][CalculateIoU]_vars

\* ---------------------------------------------------------------- decoder
\* Largest number N of candidate positions in a tensor.
MaxPreds == 2

\* Tensors [4 + C][N] with C in ClassCounts: score levels (units of 0.25,
\* also the positions of the confidence slider), the box channels
\* (cx, cy, w, h) of a position (even sizes, so that w / 2 is exact) and the
\* pairs <<scaleX, scaleY>> of canvas size over 640.
Levels == 0..2
BoxChannels == {<<2, 2, 2, 2>>, <<2, 3, 2, 4>>}
ScalePairs == {<<1, 1>>, <<2, 1>>}

Tensor(boxes, scores) ==
  [k \in 1..4 |-> [i \in DOMAIN boxes |-> boxes[i][k]]] \o scores

Tensors ==
  UNION {{Tensor(boxes, scores) :
            boxes \in [1..n -> BoxChannels],
            scores \in [1..c -> [1..n -> Levels]]} :
         n \in 1..MaxPreds, c \in ClassCounts}

\* The class scan of position i (lines 161-170), from class index c on:
\* <<maxScore, maxClassIndex>>.  Class index c is channel c + 4, which is
\* element c + 5 of the 1-based list.
RECURSIVE ScanClasses(_, _, _, _, _)
ScanClasses(pred, i, c, maxScore, maxClassIndex) ==
  IF c >= Len(pred) - 4 THEN <<maxScore, maxClassIndex>>
  ELSE IF pred[c + 5][i] > maxScore
    THEN ScanClasses(pred, i, c + 1, pred[c + 5][i], c)
    ELSE ScanClasses(pred, i, c + 1, maxScore, maxClassIndex)

\* A threshold test that also drops a candidate whose score equals the
\* threshold.
belowThresholdInclusive(maxScore, t) ==
  maxScore <= t

\* A threshold test with the comparison turned around.
belowThresholdReversed(maxScore, t) ==
  maxScore > t

\* if (maxScore < confidenceThreshold) continue (line 172).
belowThreshold(maxScore, t) ==
  maxScore < t

\* The detection pushed for position i (lines 174-183).
DetectionAt(pred, sc, i, best) ==
  LET x == pred[1][i]  y == pred[2][i]  w == pred[3][i]  h == pred[4][i]
  IN [bbox |-> <<(x - w \div 2) * sc[1], (y - h \div 2) * sc[2], w * sc[1], h * sc[2]>>,
      score |-> best[1],
      class |-> best[2]]

\* The loop over the positions (lines 155-184), from 1-based position i on.
RECURSIVE DecodeLoop(_, _, _, _, _)
DecodeLoop(pred, t, sc, i, dets) ==
  IF i > Len(pred[1]) THEN dets
  ELSE LET best == ScanClasses(pred, i, 0, 0, -1)
       IN IF belowThreshold(best[1], t)
            THEN DecodeLoop(pred, t, sc, i + 1, dets)
            ELSE DecodeLoop(pred, t, sc, i + 1, Append(dets, DetectionAt(pred, sc, i, best)))

decode(pred, t, sc) ==
  DecodeLoop(pred, t, sc, 1, <<>>)

\* The decoder called on arbitrary tensors.
DecodeInit ==
  /\ SchedInit
  /\ NMSIdle
  /\ IoUIdle
  /\ predictions \in Tensors
  /\ confidenceThreshold \in Levels
  /\ scale \in ScalePairs
  /\ decoded = <<>>
  /\ decPc = "call"

Decode ==
  /\ decPc = "call"
  /\ decoded' = decode(predictions, confidenceThreshold, scale)
  /\ decPc' = "return"
  /\ UNCHANGED <<predictions, confidenceThreshold, scale>>
  /\ UNCHANGED <<schedVars, nmsVars, iouVars>>

SpecDecode == DecodeInit /\ [][Decode]_vars

\* processDetections as a whole (lines 135-214) on arbitrary tensors: decode
\* into render space, then applyNMS(detections, 0.5) (line 187); what is
\* drawn is the filtered list.
ProcessInit ==
  /\ SchedInit
  /\ NMSIdle
  /\ IoUIdle
  /\ predictions \in Tensors
  /\ confidenceThreshold \in Levels
  /\ scale \in ScalePairs
  /\ decoded = <<>>
  /\ decPc = "process"

ProcessDetections ==
  /\ decPc = "process"
  /\ decoded' = decode(predictions, confidenceThreshold, scale)
  /\ detections' = decoded'
  /\ iouThreshold' = <<1, 2>>
  /\ filteredDetections' = applyNMS(decoded', <<1, 2>>)
  /\ decPc' = "rendered"
  /\ UNCHANGED <<predictions, confidenceThreshold, scale, nmsPc>>
  /\ UNCHANGED <<schedVars, iouVars>>

SpecProcess == ProcessInit /\ [][ProcessDetections]_vars

\* The callbacks the browser and the inference engine owe the program: a
\* pending animation frame is delivered, and an outstanding processor/model
\* promise settles.
Settles(i) ==
  ProcessorResolves(i) \/ InferenceFails(i) \/ ModelResolves(i) \/ DecodeFails(i)

FairSpec ==
  /\ Spec
  /\ \A i \in Inv : WF_vars(AnimationFrame(i))
  /\ \A i \in Inv : WF_vars(Settles(i))

\* ------------------------------------------------------------------ claims
\* Steps of the frame scheduler, as seen on the state.
Begins(i) == pc[i] \notin Cycle /\ pc'[i] \in Cycle
Ends(i) == pc[i] \in Cycle /\ pc'[i] \notin Cycle
Renders(i) == pc[i] = "model" /\ pc'[i] # "model" /\ lastFrameTime' # lastFrameTime

\* C1: the number of concurrently outstanding inference cycles never exceeds 1.
C1_AtMostOneCycle ==
  Cardinality(InFlight) <= 1

\* C2: once stopDetection() has returned and until startDetection() is invoked
\* again, no animation frame is armed and no detectFrame call begins.
C2_NoCycleAfterStop ==
  [][(halted /\ halted') =>
       /\ Armed' \subseteq Armed
       /\ \A i \in Inv : ~Begins(i)]_vars

\* C3: a cycle that was in flight when stopDetection() was called is discarded
\* when it arrives: it does not run processDetections, so it leaves the
\* overlay and lastFrameTime alone and reports no detections on the status.
C3_InFlightResultDiscarded ==
  [][\A i \in discard : Ends(i) =>
       /\ UNCHANGED <<overlay, lastFrameTime>>
       /\ statusText' # "Detected"]_vars

\* C4: after a model switch has begun, no invocation made before the switch
\* starts an inference or renders.
C4_SwitchIsAtomic ==
  [][\A i \in old' : ~Begins(i) /\ ~Renders(i)]_vars

\* C5: a startDetection() whose model load or camera acquisition is rejected
\* starts no cycle: the failing step leaves isProcessing, the armed requests,
\* the outstanding cycles and detectionLoopId as they were and ends the
\* invocation for good; and as long as no invocation got past its camera,
\* isProcessing is false and no request handle is stored.
NoneStarted == \A i \in Inv : pc[i] \in {"unused", "failed"} \cup Starting

C5_FailedStartStartsNoCycle ==
  /\ [](NoneStarted => (isProcessing = FALSE /\ detectionLoopId = null))
  /\ [][\A i \in Inv : (ModelLoadFails(i) \/ GetUserMediaRejects(i)) =>
          /\ pc'[i] = "failed"
          /\ Armed' = Armed
          /\ InFlight' = InFlight
          /\ UNCHANGED <<isProcessing, detectionLoopId, stream>>]_vars
  /\ [][\A i \in Inv : pc[i] = "failed" => pc'[i] = "failed"]_vars

C5_Witness ==
  \E i \in Inv : pc[i] = "failed" /\ statusText = "Failed to start"

\* C6: every cycle that set isProcessing clears it when it completes, whatever
\* its outcome, and the flag is never left set with no cycle outstanding.
C6_BusyIsCleared ==
  /\ [](isProcessing => InFlight # {})
  /\ [][\A i \in Inv : Ends(i) => isProcessing' = FALSE]_vars

C6_Witness ==
  \E i \in Inv : /\ pc[i] = "raf"
                 /\ detectionLoopId = i
                 /\ statusText = "Error"
                 /\ isProcessing = FALSE

\* C7: every completed cycle arms the next animation frame whatever its
\* outcome, and once a frame is armed a cycle eventually runs unless
\* stopDetection() cancels the request.
C7_LoopIsRearmed ==
  /\ [][\A i \in Inv : Ends(i) => (pc'[i] = "raf" /\ detectionLoopId' = i)]_vars
  /\ \A i \in Inv : (pc[i] = "raf") ~> (InFlight # {} \/ pc[i] = "cancelled")

C7_Witness ==
  \E i \in Inv : /\ pc[i] \in Cycle
                 /\ detectionLoopId = i
                 /\ statusText = "Error"

\* C8: a detectFrame call made while isProcessing is set is dropped: no cycle
\* starts, nothing is rendered, isProcessing and lastFrameTime keep their
\* values, and the caller is left with its one pending animation frame.
Dropped(i) ==
  /\ isProcessing
  /\ AnimationFrame(i) \/ (LoadedMetadata /\ onloadedmetadata = i
                                          /\ pc[i] = "loadedmetadata")

C8_BusyRequestIsDropped ==
  [][\A i \in Inv : Dropped(i) =>
       /\ InFlight' = InFlight
       /\ pc'[i] = "raf"
       /\ Armed' = Armed \cup {i}
       /\ UNCHANGED <<isProcessing, lastFrameTime, overlay, statusText>>]_vars

C8_Witness ==
  \E i, j \in Inv : /\ i # j
                    /\ pc[i] = "raf"
                    /\ detectionLoopId = i
                    /\ pc[j] \in Cycle
                    /\ isProcessing
                    /\ stream = i

\* C9: after stopDetection() returns and with no startDetection() since, the
\* stream is null, every acquired track is stopped, isProcessing is false and
\* no animation frame is pending.
C9_StoppedStateIsInitial ==
  halted =>
    /\ stream = null
    /\ live = {}
    /\ isProcessing = FALSE
    /\ Armed = {}
    /\ detectionLoopId = null

\* C10: no two detections returned by applyNMS overlap by more than the
\* threshold, the overlap being the intersection over union of the two boxes.
C10_NoOverlapAboveThreshold ==
  nmsPc = "return" =>
    \A i, j \in 1..Len(filteredDetections) :
      i # j => ~IoUExceeds(filteredDetections[i].bbox, filteredDetections[j].bbox,
                           iouThreshold)

\* Number of occurrences of d in the list ds.
Count(ds, d) == Cardinality({k \in 1..Len(ds) : ds[k] = d})

\* C11: applyNMS is a pure filter: every detection it returns is a detection
\* of its argument with bbox, score and class unchanged, occurring at most as
\* often as in the argument, so the result is never longer than the argument.
C11_NMSIsPureFilter ==
  nmsPc = "return" =>
    /\ Len(filteredDetections) <= Len(detections)
    /\ \A k \in 1..Len(filteredDetections) :
         /\ Count(detections, filteredDetections[k]) >= 1
         /\ Count(filteredDetections, filteredDetections[k])
              <= Count(detections, filteredDetections[k])

C11_Witness ==
  /\ nmsPc = "return"
  /\ Len(filteredDetections) >= 1
  /\ Len(filteredDetections) < Len(detections)

\* C12: applyNMS with threshold 1.0 suppresses nothing: every detection of
\* the argument is retained.
C12_ThresholdOneKeepsAll ==
  (nmsPc = "return" /\ iouThreshold = <<1, 1>>) =>
    \A k \in 1..Len(detections) :
      Count(filteredDetections, detections[k]) = Count(detections, detections[k])

\* The largest class score of position i, and the positions whose largest
\* class score reaches the confidence threshold.
MaxScoreAt(i) ==
  LET S == {predictions[c][i] : c \in 5..Len(predictions)}
  IN CHOOSE m \in S : \A v \in S : v <= m

Reaching(t) == {i \in 1..Len(predictions[1]) : MaxScoreAt(i) >= t}

\* The k-th smallest element of the set of positions P.
Nth(P, k) == CHOOSE i \in P : Cardinality({j \in P : j < i}) = k - 1

\* C13: the decoder emits a detection for position i exactly when the largest
\* class score of i is at least the confidence threshold, in increasing
\* order of i.
C13_EmitsIffAboveThreshold ==
  decPc = "return" =>
    LET P == Reaching(confidenceThreshold)
    IN /\ Len(decoded) = Cardinality(P)
       /\ \A k \in 1..Len(decoded) :
            LET i == Nth(P, k)
            IN /\ decoded[k].score = MaxScoreAt(i)
               /\ decoded[k].bbox[3] = predictions[3][i] * scale[1]
               /\ decoded[k].bbox[4] = predictions[4][i] * scale[2]
               /\ decoded[k].bbox[2] * 2 = (2 * predictions[2][i] - predictions[4][i]) * scale[2]

C13_Witness ==
  /\ decPc = "return"
  /\ Len(decoded) >= 1
  /\ Len(decoded) < Len(predictions[1])
  /\ \E k \in 1..Len(decoded) : decoded[k].score = confidenceThreshold

\* a is a subsequence of b.
RECURSIVE IsSubSeq(_, _)
IsSubSeq(a, b) ==
  IF a = <<>> THEN TRUE
  ELSE IF b = <<>> THEN FALSE
  ELSE IF Head(a) = Head(b) THEN IsSubSeq(Tail(a), Tail(b))
  ELSE IsSubSeq(a, Tail(b))

\* C14: raising the confidence threshold never adds a detection: what is
\* decoded at a higher threshold is a subsequence of what is decoded at the
\* lower one, so the count is non-increasing.
C14_DecodeIsMonotone ==
  decPc = "return" =>
    \A t2 \in Levels :
      t2 >= confidenceThreshold =>
        /\ IsSubSeq(decode(predictions, t2, scale), decoded)
        /\ Len(decode(predictions, t2, scale)) <= Len(decoded)

C14_Witness ==
  /\ decPc = "return"
  /\ \E t2 \in Levels :
       /\ t2 > confidenceThreshold
       /\ Len(decode(predictions, t2, scale)) >= 1
       /\ Len(decode(predictions, t2, scale)) < Len(decoded)

\* C15: a cycle whose output tensor has a class count different from the
\* number of labels of the model fails: it renders nothing, writes the error
\* to the status and ends like every other cycle, so that the loop goes on.
C15_ShapeMismatchFailsCycle ==
  [][\A i \in Inv : \A c \in ClassCounts \ {LabelCount} :
       ModelResolvesWith(i, c) =>
         /\ overlay' = ""
         /\ statusText' = "Error"
         /\ cycleEnd(i)]_vars

\* The status texts that are built from error.message: `Failed to start:
\* ${error.message}` (line 325) and `Error: ${error.message}` (line 299).
CarriesErrorMessage == {"Failed to start", "Error"}

\* C16: every failure is reported: the step in which a model load or the
\* camera acquisition is rejected, or in which the processor, the model or
\* processDetections throws inside a cycle, leaves a status text that carries
\* the error's message.
C16_FailuresAreReported ==
  [][\A i \in Inv :
       (ModelLoadFails(i) \/ GetUserMediaRejects(i) \/ InferenceFails(i) \/ DecodeFails(i))
         => statusText' \in CarriesErrorMessage]_vars

C16_Witness ==
  /\ statusText = "Error"
  /\ \E i \in Inv : pc[i] = "raf"

\* Two returned quotients q[1] / q[2] and r[1] / r[2] are the same double:
\* equal as fractions when both divisors are non-zero; with both divisors 0,
\* both NaN (0 / 0) or both Infinity (x / 0, x > 0).
SameDouble(q, r) ==
  IF q[2] # 0 /\ r[2] # 0 THEN q[1] * r[2] = r[1] * q[2]
  ELSE /\ q[2] = 0
       /\ r[2] = 0
       /\ (q[1] = 0) <=> (r[1] = 0)

Positive(box) == box[3] > 0 /\ box[4] > 0

\* C17: calculateIoU is symmetric: calculateIoU(A, B) = calculateIoU(B, A).
C17_IoUIsSymmetric ==
  iouPc = "return" => SameDouble(iou, calculateIoU(argB, argA))

\* C18: calculateIoU is reflexive: calculateIoU(box, box) = 1 for every box
\* of positive width and height.
C18_IoUIsReflexive ==
  (iouPc = "return" /\ argA = argB /\ Positive(argA)) =>
    /\ iou[2] # 0
    /\ iou[1] = iou[2]

\* C19: calculateIoU returns the reference value: the area of the
\* intersection rectangle over the area of the union, and 0 when the union
\* is empty.
C19_IoUIsReferenceValue ==
  iouPc = "return" =>
    LET ix == Max(0, Min(argA[1] + argA[3], argB[1] + argB[3]) - Max(argA[1], argB[1]))
        iy == Max(0, Min(argA[2] + argA[4], argB[2] + argB[4]) - Max(argA[2], argB[2]))
        inter == ix * iy
        uni == argA[3] * argA[4] + argB[3] * argB[4] - inter
    IN /\ iou[2] # 0
       /\ IF uni = 0 THEN iou[1] = 0
                     ELSE iou[1] * uni = inter * iou[2]

\* C20: for boxes of positive width and height the value returned by
\* calculateIoU lies in [0, 1].
C20_IoUInUnitInterval ==
  (iouPc = "return" /\ Positive(argA) /\ Positive(argB)) =>
    /\ iou[2] > 0
    /\ 0 <= iou[1]
    /\ iou[1] <= iou[2]

\* The index in [0, C) of the first class channel of position i that holds
\* the largest class score of i.
FirstMaxClass(i) ==
  CHOOSE c \in 0..(Len(predictions) - 5) :
    /\ predictions[c + 5][i] = MaxScoreAt(i)
    /\ \A b \in 0..(c - 1) : predictions[b + 5][i] # MaxScoreAt(i)

\* C21: every emitted detection carries the index in [0, C) of the first
\* class channel that reaches the largest class score of its position, and
\* that largest score; at every threshold, threshold 0 included.
C21_ClassIsFirstMaximum ==
  decPc = "return" =>
    \A k \in 1..Len(decoded) :
      LET i == Nth(Reaching(confidenceThreshold), k)
      IN /\ decoded[k].class \in 0..(Len(predictions) - 5)
         /\ decoded[k].class = FirstMaxClass(i)
         /\ decoded[k].score = MaxScoreAt(i)

\* The coordinate mapping of the specification applied to a list of
\* detections in model space.
RECURSIVE ToRenderSpace(_, _)
ToRenderSpace(ds, sc) ==
  IF ds = <<>> THEN <<>>
  ELSE LET b == Head(ds).bbox
       IN <<[Head(ds) EXCEPT !.bbox = <<b[1] * sc[1], b[2] * sc[2], b[3] * sc[1], b[4] * sc[2]>>]>>
            \o ToRenderSpace(Tail(ds), sc)

\* C22: suppression gives the same survivors in either coordinate space:
\* scaling the candidates and then suppressing at 0.5, as the code does,
\* retains what suppressing the model-space candidates at 0.5 and then
\* scaling the survivors once retains.
C22_SuppressionCommutesWithScaling ==
  decPc = "rendered" =>
    filteredDetections =
      ToRenderSpace(applyNMS(decode(predictions, confidenceThreshold, <<1, 1>>), <<1, 2>>),
                    scale)

\* C23: the busy flag agrees with the pipeline: isProcessing is true exactly
\* when one cycle is outstanding, and while a cycle is outstanding only the
\* end of a cycle (detectFrame's finally block) makes the flag false.
C23_BusyFlagAgrees ==
  /\ [](isProcessing <=> Cardinality(InFlight) = 1)
  /\ [][(InFlight # {} /\ isProcessing /\ ~isProcessing') =>
          \E i \in Inv : Ends(i)]_vars

\* C24: at most one detection loop exists: at most one invocation has a
\* pending animation frame or a running cycle, at most one acquired camera
\* stream has not been stopped, and a pending animation-frame request is the
\* one detectionLoopId names.
C24_AtMostOneLoop ==
  /\ Cardinality(Armed \cup InFlight) <= 1
  /\ Cardinality(live) <= 1
  /\ Armed \subseteq {detectionLoopId}

====
